---- MODULE Spec2Model ----
(***************************************************************************)
(* Compressed trie (radix tree) of src/src/radix_tree.c.                   *)
(*                                                                         *)
(* The heap is a set of node addresses with the fields of struct           *)
(* RadixTreeNode.  Strings are sequences of character codes; a pointer     *)
(* into a string is the offset from its start, the terminating '\0' being  *)
(* at offset Len(s).  Every public function is one action.                  *)
(***************************************************************************)
EXTENDS Integers, Sequences, FiniteSets, TLC

\* ---------------------------------------------------------------- bounds
MaxNodes == 4        \* nodes the memory holds (the root included)
MaxLen   == 3        \* longest key handed to insert
MaxDigit == 2        \* keys are written with the digits 1..MaxDigit
MaxData  == 1        \* payload pointers 1..MaxData
MaxMallocs == 5      \* malloc outcomes the environment fixes for one insert
MaxMerges == 2       \* merges of one balance whose outcome the environment varies one by one
MaxDeep  == 8        \* SpecDeep: the keys are 1, 11, 111, ... up to this length
MaxHist  == 3        \* SpecEx: inserts of one run

\* ------------------------------------------------------- program constants
NULL == 0
CHAR_ZERO == 48                          \* '0'
RADIX_TREE_NUMBER_OF_SONS == 10
RADIX_TREE_ROOT_TXT == <<114>>           \* a text no digit string equals
RADIX_TREE_OPERATION_SUCCESS == 1
RADIX_TREE_OPERATION_FAIL == 0
RADIX_TREE_FOUND == 1
RADIX_TREE_SUBSTR == 2
RADIX_TREE_NOT_FOUND == 0
canSkip == 5

Slots == 0..(RADIX_TREE_NUMBER_OF_SONS - 1)
NoTxt == <<>>                            \* txt == NULL
NoSons == [i \in Slots |-> NULL]

VARIABLES
    tree,      \* the caller's RadixTree pointer (NULL: no tree)
    alloc,     \* addresses of the nodes that are allocated
    txt,       \* node->txt, for the allocated nodes
    data,      \* node->data
    father,    \* node->father
    sons,      \* node->sons[]
    err,       \* an assertion failed or an array was indexed out of range
    cap,       \* how many nodes the memory holds
    keys,      \* the keys this caller hands to radixTreeInsert
    ins,       \* SpecIns: the keys inserted since radixTreeCreate;
               \* SpecKeys: the keys added and not removed since
    hist       \* SpecEx: the keys inserted since radixTreeCreate, in call order;
               \* SpecKeys: the key whose removal has just merged a node

heap == <<alloc, txt, data, father, sons, err>>
vars == <<tree, alloc, txt, data, father, sons, err, cap, keys, ins, hist>>

\* The heap as one value, with the outcomes of the mallocs still to come
\* (fs[1] tells whether the next malloc fails) and the number of mallocs
\* that have failed so far.
Heap(fs) == [alloc |-> alloc, txt |-> txt, data |-> data, father |-> father,
             sons |-> sons, err |-> err, cap |-> cap, fs |-> fs, nfail |-> 0]

\* ------------------------------------------------------------ stdfunc.h
stringEnd(s) == Len(s)
copyText(s, from, n) == SubSeq(s, from + 1, from + n)

\* ---------------------------------------------------------------- nodes
radixTreeIsRoot(h, node) ==
    h.txt[node] # NoTxt /\ h.txt[node] = RADIX_TREE_ROOT_TXT

\* malloc of anything: fails when the environment says so.
MallocFails(h) == h.fs # <<>> /\ Head(h.fs)
Malloced(h) == [h EXCEPT !.fs = IF h.fs = <<>> THEN <<>> ELSE Tail(h.fs),
                         !.nfail = IF MallocFails(h) THEN @ + 1 ELSE @]

\* malloc(sizeof(struct RadixTreeNode)): also fails when the memory is full.
NodeMallocFails(h) == MallocFails(h) \/ Cardinality(h.alloc) >= h.cap

\* The address malloc returns.  The code never looks at an address except to
\* compare two of them, so any free address gives the same behaviour: the
\* model takes the one numbered by the key the new node stands for (a node
\* stands for the same key as long as it lives), 1 for the root, so that
\* heaps that differ only in their addresses are one state.
RECURSIVE KeyNumber(_)
KeyNumber(key) ==
    IF key = <<>> THEN 0
    ELSE KeyNumber(SubSeq(key, 1, Len(key) - 1)) * RADIX_TREE_NUMBER_OF_SONS
         + (key[Len(key)] - CHAR_ZERO) + 1
FreshNode(h, key) ==
    IF 1 + KeyNumber(key) \notin h.alloc THEN 1 + KeyNumber(key)
    ELSE CHOOSE n \in 1..(2 + KeyNumber(key)) :
            /\ n \notin h.alloc
            /\ \A m \in 1..n : m \notin h.alloc => m = n

Extend(f, x, v) == [y \in DOMAIN f \cup {x} |-> IF y = x THEN v ELSE f[y]]
Without(f, x) == [y \in DOMAIN f \ {x} |-> f[y]]

\* Mutant: node->data is not cleared.
radixTreeInitNode_DataLeft(h, node) ==
    [h EXCEPT !.data = Extend(@, node, MaxData), !.txt = Extend(@, node, NoTxt),
              !.father = Extend(@, node, NULL), !.sons = Extend(@, node, NoSons)]

radixTreeInitNode(h, node) ==
    [h EXCEPT !.data = Extend(@, node, NULL), !.txt = Extend(@, node, NoTxt),
              !.father = Extend(@, node, NULL), !.sons = Extend(@, node, NoSons)]

\* Returns the heap and the new node (NULL when malloc failed); key is the
\* key the node is created for.
radixTreeCreateNode(h, key) ==
    IF NodeMallocFails(h)
    THEN [h |-> [Malloced(h) EXCEPT !.nfail = h.nfail + 1], node |-> NULL]
    ELSE LET n == FreshNode(h, key)
         IN [h |-> radixTreeInitNode([Malloced(h) EXCEPT !.alloc = @ \cup {n}], n),
             node |-> n]

\* free(node): the node's fields are gone.
Released(h, node) ==
    [h EXCEPT !.alloc = @ \ {node}, !.txt = Without(@, node),
              !.data = Without(@, node), !.father = Without(@, node),
              !.sons = Without(@, node)]

radixTreeFreeNode(h, node) ==
    IF ~radixTreeIsRoot(h, node)
    THEN Released([h EXCEPT !.err = @ \/ h.data[node] # NULL], node)
    ELSE Released(h, node)

radixTreeConvertCharToNumber(sonId) == sonId - CHAR_ZERO

\* *s for a string s: its first character, '\0' (0) when it is empty.
FirstChar(s) == IF s = <<>> THEN 0 ELSE s[1]

radixTreeHasSon(h, node, son) ==
    /\ radixTreeConvertCharToNumber(son) \in Slots
    /\ h.sons[node][radixTreeConvertCharToNumber(son)] # NULL

radixTreeHowManySons(h, node) ==
    Cardinality({i \in Slots : h.sons[node][i] # NULL})

radixTreeHasSons(h, node) == radixTreeHowManySons(h, node) # 0

\* Mutant: a node without sons counts as redundant whatever it holds.
radixTreeIsNodeRedundant_AnyData(h, node) ==
    /\ ~radixTreeIsRoot(h, node)
    /\ ~radixTreeHasSons(h, node)

radixTreeIsNodeRedundant(h, node) ==
    /\ ~radixTreeIsRoot(h, node)
    /\ ~radixTreeHasSons(h, node)
    /\ h.data[node] = NULL

\* Mutant: no node is ever merged with its son.
radixTreeCanBeMergedWithSon_Never(h, node) == FALSE

radixTreeCanBeMergedWithSon(h, node) ==
    /\ ~radixTreeIsRoot(h, node)
    /\ radixTreeHowManySons(h, node) = 1
    /\ h.data[node] = NULL

\* Mutant: the slot is never written.
radixTreeChangeSon_Lost(h, node, son, ch) == h

radixTreeChangeSon(h, node, son, ch) ==
    IF node = NULL THEN h
    ELSE IF radixTreeConvertCharToNumber(son) \in Slots
         THEN [h EXCEPT !.sons[node][radixTreeConvertCharToNumber(son)] = ch]
         ELSE [h EXCEPT !.err = TRUE]

\* ---------------------------------------------------------------- find
\* The number of characters radixTreeMoveTxt's loop advances over.
RECURSIVE MatchLen(_, _, _, _)
MatchLen(label, key, i, t) ==
    IF i < Len(label) /\ t < Len(key) /\ label[i + 1] = key[t + 1]
    THEN MatchLen(label, key, i + 1, t + 1)
    ELSE i

\* t is *txt as an offset into key; the result carries the new *txt and
\* *nodeTxtPtr (an offset into node->txt).
radixTreeMoveTxt(h, node, key, t) ==
    LET i == IF radixTreeIsRoot(h, node)
             THEN stringEnd(h.txt[node])
             ELSE MatchLen(h.txt[node], key, 0, t)
        t2 == IF radixTreeIsRoot(h, node) THEN t ELSE t + i
    IN [res |-> IF i = Len(h.txt[node]) THEN RADIX_TREE_OPERATION_SUCCESS
                ELSE RADIX_TREE_OPERATION_FAIL,
        node |-> node, t |-> t2, nm |-> i]

\* Mutant: when the son is missing, *nodeTxtPtr is reset.
radixTreeMove_NmLost(h, node, key, t, nm) ==
    IF ~radixTreeHasSon(h, node, key[t + 1])
    THEN [res |-> RADIX_TREE_OPERATION_FAIL, node |-> node, t |-> t, nm |-> 0]
    ELSE radixTreeMoveTxt(h, h.sons[node][radixTreeConvertCharToNumber(key[t + 1])],
                          key, t)

radixTreeMove(h, node, key, t, nm) ==
    IF ~radixTreeHasSon(h, node, key[t + 1])
    THEN [res |-> RADIX_TREE_OPERATION_FAIL, node |-> node, t |-> t, nm |-> nm]
    ELSE radixTreeMoveTxt(h, h.sons[node][radixTreeConvertCharToNumber(key[t + 1])],
                          key, t)

RECURSIVE FindLoop(_, _, _, _, _)
FindLoop(h, key, ptr, t, nm) ==
    IF t < Len(key)
    THEN LET m == radixTreeMove(h, ptr, key, t, nm)
         IN IF m.res = RADIX_TREE_OPERATION_SUCCESS
            THEN FindLoop(h, key, m.node, m.t, m.nm)
            ELSE [ptr |-> m.node, t |-> m.t, nm |-> m.nm]
    ELSE [ptr |-> ptr, t |-> t, nm |-> nm]

\* Mutant: the exhausted key is tested before the exhausted label, so a
\* key that ends at a node is reported as ending inside a label.
radixTreeFind_KeyFirst(h, root, key) ==
    LET r == FindLoop(h, key, root, 0, stringEnd(h.txt[root]))
    IN [res |-> IF r.t = Len(key) /\ key # <<>> THEN RADIX_TREE_SUBSTR
                ELSE IF r.t = Len(key) THEN RADIX_TREE_FOUND
                ELSE RADIX_TREE_NOT_FOUND,
        ptr |-> r.ptr, t |-> r.t, nm |-> r.nm]

\* ptr, txtMatchPtr (offset t into key) and nodeMatchPtr (offset nm into
\* ptr->txt) are the out-parameters.
radixTreeFind(h, root, key) ==
    LET r == FindLoop(h, key, root, 0, stringEnd(h.txt[root]))
        nodeEnd == r.nm = Len(h.txt[r.ptr])
        keyEnd  == r.t = Len(key)
    IN [res |-> IF nodeEnd /\ keyEnd THEN RADIX_TREE_FOUND
                ELSE IF keyEnd THEN RADIX_TREE_SUBSTR
                ELSE RADIX_TREE_NOT_FOUND,
        ptr |-> r.ptr, t |-> r.t, nm |-> r.nm]

\* The key a node stands for: the labels on the way from the root to it.
RECURSIVE FullText(_, _)
FullText(h, pos) ==
    IF radixTreeIsRoot(h, pos) THEN <<>>
    ELSE FullText(h, h.father[pos]) \o h.txt[pos]

\* --------------------------------------------------------------- insert
\* Mutant: node is hung under newNode in the slot of newNode's own first
\* character.
SplitRewire_WrongSlot(h, node, newNode, textA, textB) ==
    LET h1 == [h EXCEPT !.txt[node] = textB, !.txt[newNode] = textA]
        h2 == [h1 EXCEPT !.father[newNode] = h1.father[node]]
        h3 == radixTreeChangeSon(h2, h2.father[node], FirstChar(textA), newNode)
        h4 == [h3 EXCEPT !.father[node] = newNode]
    IN radixTreeChangeSon(h4, newNode, FirstChar(textA), node)

\* Mutant: the payload moves to the new node with the prefix.
SplitRewire_DataUp(h, node, newNode, textA, textB) ==
    LET h1 == [h EXCEPT !.txt[node] = textB, !.txt[newNode] = textA,
                        !.data[newNode] = h.data[node], !.data[node] = NULL]
        h2 == [h1 EXCEPT !.father[newNode] = h1.father[node]]
        h3 == radixTreeChangeSon(h2, h2.father[node], FirstChar(textA), newNode)
        h4 == [h3 EXCEPT !.father[node] = newNode]
    IN radixTreeChangeSon(h4, newNode, FirstChar(textB), node)

\* The assignments of radixTreeSplitNode once its three mallocs succeeded.
SplitRewire(h, node, newNode, textA, textB) ==
    LET h1 == [h EXCEPT !.txt[node] = textB, !.txt[newNode] = textA]
        h2 == [h1 EXCEPT !.father[newNode] = h1.father[node]]
        h3 == radixTreeChangeSon(h2, h2.father[node], FirstChar(textA), newNode)
        h4 == [h3 EXCEPT !.father[node] = newNode]
    IN radixTreeChangeSon(h4, newNode, FirstChar(textB), node)

\* Mutant: the label is cut one character after splitPtr when it can be.
radixTreeSplitNode_TooFar(h, node, splitPtr) ==
    LET at == IF splitPtr + 1 < Len(h.txt[node]) THEN splitPtr + 1 ELSE splitPtr
        c == radixTreeCreateNode(h, FullText(h, h.father[node])
                                    \o copyText(h.txt[node], 0, at))
    IN IF c.node = NULL
       THEN [h |-> c.h, res |-> RADIX_TREE_OPERATION_FAIL]
       ELSE IF MallocFails(c.h)
       THEN [h |-> radixTreeFreeNode(Malloced(c.h), c.node),
             res |-> RADIX_TREE_OPERATION_FAIL]
       ELSE IF MallocFails(Malloced(c.h))
       THEN [h |-> radixTreeFreeNode(Malloced(Malloced(c.h)), c.node),
             res |-> RADIX_TREE_OPERATION_FAIL]
       ELSE [h |-> SplitRewire(Malloced(Malloced(c.h)), node, c.node,
                               copyText(h.txt[node], 0, at),
                               copyText(h.txt[node], at, Len(h.txt[node]) - at)),
             res |-> RADIX_TREE_OPERATION_SUCCESS]

\* splitPtr is an offset into node->txt.
radixTreeSplitNode(h, node, splitPtr) ==
    LET c == radixTreeCreateNode(h, FullText(h, h.father[node])
                                    \o copyText(h.txt[node], 0, splitPtr))
        newNode == c.node
    IN IF newNode = NULL
       THEN [h |-> c.h, res |-> RADIX_TREE_OPERATION_FAIL]
       ELSE
        LET matchingTextLength == splitPtr
            textLeftLength == Len(h.txt[node]) - matchingTextLength
        IN IF MallocFails(c.h)                                   \* textA
           THEN [h |-> radixTreeFreeNode(Malloced(c.h), newNode),
                 res |-> RADIX_TREE_OPERATION_FAIL]
           ELSE IF MallocFails(Malloced(c.h))                    \* textB
           THEN [h |-> radixTreeFreeNode(Malloced(Malloced(c.h)), newNode),
                 res |-> RADIX_TREE_OPERATION_FAIL]
           ELSE
            LET textA == copyText(h.txt[node], 0, matchingTextLength)
                textB == copyText(h.txt[node], matchingTextLength, textLeftLength)
            IN [h |-> SplitRewire(Malloced(Malloced(c.h)), node, newNode, textA, textB),
                res |-> RADIX_TREE_OPERATION_SUCCESS]

\* key from offset t on is the text of the new leaf.
\* Mutant: the new leaf is given the whole key as its label, not the part
\* of the key that is left below node.
radixTreeInsertLeaf_WholeKey(h, node, key, t) ==
    IF MallocFails(h)
    THEN [h |-> Malloced(h), node |-> NULL]
    ELSE LET c == radixTreeCreateNode(Malloced(h), FullText(h, node) \o key)
         IN IF c.node = NULL
            THEN [h |-> c.h, node |-> NULL]
            ELSE LET h1 == [c.h EXCEPT !.txt[c.node] = key, !.father[c.node] = node]
                 IN [h |-> radixTreeChangeSon(h1, node, FirstChar(key), c.node),
                     node |-> c.node]

radixTreeInsertLeaf(h, node, key, t) ==
    LET textLength == Len(key) - t
    IN IF MallocFails(h)                                         \* copiedText
       THEN [h |-> Malloced(h), node |-> NULL]
       ELSE
        LET copiedText == copyText(key, t, textLength)
            c == radixTreeCreateNode(Malloced(h), FullText(h, node) \o copiedText)
            newNode == c.node
        IN IF newNode = NULL
           THEN [h |-> c.h, node |-> NULL]
           ELSE
            LET h1 == [c.h EXCEPT !.txt[newNode] = copiedText,
                                  !.father[newNode] = node]
                h2 == [h1 EXCEPT !.err = @ \/ radixTreeHasSon(h1, node, FirstChar(copiedText))]
            IN [h |-> radixTreeChangeSon(h2, node, FirstChar(copiedText), newNode),
                node |-> newNode]

\* The result also counts the splits done and the nodes created by the call.
RECURSIVE radixTreeInsert(_, _, _)
radixTreeInsert(h, root, key) ==
    LET f == radixTreeFind(h, root, key)
        insertPtr == f.ptr
    IN IF f.res = RADIX_TREE_FOUND
       THEN [h |-> h, node |-> insertPtr, splits |-> 0]
       ELSE IF f.res = RADIX_TREE_SUBSTR
       THEN LET s == radixTreeSplitNode(h, insertPtr, f.nm)
            IN IF s.res = RADIX_TREE_OPERATION_SUCCESS
               THEN [h |-> s.h, node |-> s.h.father[insertPtr], splits |-> 1]
               ELSE [h |-> s.h, node |-> NULL, splits |-> 0]
       ELSE IF f.nm # Len(h.txt[insertPtr])
       THEN LET s == radixTreeSplitNode(h, insertPtr, f.nm)
            IN IF s.res = RADIX_TREE_OPERATION_SUCCESS
               THEN LET r == radixTreeInsert(s.h, root, key)
                    IN [r EXCEPT !.splits = @ + 1]
               ELSE [h |-> s.h, node |-> NULL, splits |-> 0]
       ELSE LET l == radixTreeInsertLeaf(h, insertPtr, key, f.t)
            IN [h |-> l.h, node |-> l.node, splits |-> 0]

\* --------------------------------------------------------- reconstructKey
\* The first loop of radixGetFullText: the length of the result.
RECURSIVE FullTextLength(_, _)
FullTextLength(h, pos) ==
    IF radixTreeIsRoot(h, pos) THEN 0
    ELSE Len(h.txt[pos]) + FullTextLength(h, h.father[pos])

\* The second loop: each label is written in front of the ones below it.
RECURSIVE FullTextFill(_, _, _, _)
FullTextFill(h, pos, length, result) ==
    IF radixTreeIsRoot(h, pos) THEN result
    ELSE LET len == Len(h.txt[pos])
             at == length - len
         IN FullTextFill(h, h.father[pos], at,
                [j \in 1..Len(result) |->
                    IF j - 1 >= at /\ j - 1 < at + len
                    THEN h.txt[pos][j - at] ELSE result[j]])

\* The string radixGetFullText returns when its malloc succeeds.
radixGetFullText(h, node) ==
    LET length == FullTextLength(h, node)
    IN FullTextFill(h, node, length, [j \in 1..length |-> 0])

\* --------------------------------------------------------------- delete
Fin(node, d) == [e |-> "fin", node |-> node, data |-> d]     \* f(node->data, fData)
Clr(node)    == [e |-> "clr", node |-> node, data |-> NULL]  \* node's slot in its father := NULL
Fre(node)    == [e |-> "free", node |-> node, data |-> NULL] \* radixTreeFreeNode(node)

\* Mutant: node->data is left as it is after f was called.
Finalized_Kept(h, node) == h

\* if (node->data != NULL) { f(node->data, fData); node->data = NULL; }
Finalized(h, node) == [h EXCEPT !.data[node] = NULL]
\* Mutant: f is called without looking at node->data.
FinLog_Always(h, node) == <<Fin(node, h.data[node])>>

FinLog(h, node) == IF h.data[node] # NULL THEN <<Fin(node, h.data[node])>> ELSE <<>>

\* The while loop of radixTreeDeleteSubTree; foldI holds the foldI fields,
\* log what has been done so far.
RECURSIVE DeleteLoop(_, _, _, _, _)
DeleteLoop(h, subTreeNode, pos, foldI, log) ==
    IF pos = subTreeNode /\ foldI[pos] = RADIX_TREE_NUMBER_OF_SONS
    THEN [h |-> h, log |-> log]
    ELSE IF foldI[pos] = RADIX_TREE_NUMBER_OF_SONS
    THEN LET tmp == pos
             h1 == Finalized(h, pos)
             up == h1.father[pos]
             h2 == radixTreeChangeSon(h1, up, FirstChar(h1.txt[tmp]), NULL)
             h3 == radixTreeFreeNode(h2, tmp)
         IN DeleteLoop(h3, subTreeNode, up, foldI,
                       log \o FinLog(h, pos) \o <<Clr(tmp), Fre(tmp)>>)
    ELSE LET i == foldI[pos]
             son == h.sons[pos][i]
         IN IF son # NULL
            THEN DeleteLoop(h, subTreeNode, son,
                            [foldI EXCEPT ![son] = 0, ![pos] = i + 1], log)
            ELSE DeleteLoop(h, subTreeNode, pos, [foldI EXCEPT ![pos] = i + 1], log)

\* Mutant: subTreeNode is finalized before the nodes below it are visited.
radixTreeDeleteSubTree_NodeFirst(h, subTreeNode) ==
    LET h0 == Finalized(h, subTreeNode)
        l == DeleteLoop(h0, subTreeNode, subTreeNode,
                        [n \in h.alloc |-> IF n = subTreeNode THEN 0 ELSE -1], <<>>)
        isRoot == radixTreeIsRoot(l.h, subTreeNode)
        h2 == IF ~isRoot
              THEN radixTreeChangeSon(l.h, l.h.father[subTreeNode],
                                      FirstChar(l.h.txt[subTreeNode]), NULL)
              ELSE l.h
    IN [h |-> radixTreeFreeNode(h2, subTreeNode),
        log |-> FinLog(h, subTreeNode) \o l.log
                      \o (IF isRoot THEN <<>> ELSE <<Clr(subTreeNode)>>)
                      \o <<Fre(subTreeNode)>>]

radixTreeDeleteSubTree(h, subTreeNode) ==
    LET l == DeleteLoop(h, subTreeNode, subTreeNode,
                        [n \in h.alloc |-> IF n = subTreeNode THEN 0 ELSE -1], <<>>)
        h1 == Finalized(l.h, subTreeNode)
        isRoot == radixTreeIsRoot(h1, subTreeNode)
        h2 == IF ~isRoot
              THEN radixTreeChangeSon(h1, h1.father[subTreeNode],
                                      FirstChar(h1.txt[subTreeNode]), NULL)
              ELSE h1
    IN [h |-> radixTreeFreeNode(h2, subTreeNode),
        log |-> l.log \o FinLog(l.h, subTreeNode)
                      \o (IF isRoot THEN <<>> ELSE <<Clr(subTreeNode)>>)
                      \o <<Fre(subTreeNode)>>]

\* -------------------------------------------------------------- balance
radixTreeFristSon(h, node) ==
    IF \E i \in Slots : h.sons[node][i] # NULL
    THEN h.sons[node][CHOOSE i \in Slots :
                        /\ h.sons[node][i] # NULL
                        /\ \A j \in Slots : h.sons[node][j] # NULL => i <= j]
    ELSE NULL

\* The value of a call that ran off the end of radixTreeMerge without a
\* return statement: nothing fixes it.
UNSPECIFIED == 99

\* Mutant: the two labels are joined the wrong way round.
radixTreeMerge_Swapped(h, a, b) ==
    IF MallocFails(h)
    THEN [h |-> Malloced(h), res |-> RADIX_TREE_OPERATION_FAIL]
    ELSE LET newTxt == copyText(h.txt[b], 0, Len(h.txt[b]))
                        \o copyText(h.txt[a], 0, Len(h.txt[a]))
             h1 == [Malloced(h) EXCEPT !.txt[b] = newTxt, !.father[b] = h.father[a]]
             h2 == radixTreeChangeSon(h1, h1.father[a], FirstChar(h.txt[a]), b)
         IN [h |-> radixTreeFreeNode(h2, a), res |-> UNSPECIFIED]

\* Mutant: b->father is left pointing at a.
radixTreeMerge_FatherKept(h, a, b) ==
    IF MallocFails(h)
    THEN [h |-> Malloced(h), res |-> RADIX_TREE_OPERATION_FAIL]
    ELSE LET newTxt == copyText(h.txt[a], 0, Len(h.txt[a]))
                        \o copyText(h.txt[b], 0, Len(h.txt[b]))
             h1 == [Malloced(h) EXCEPT !.txt[b] = newTxt]
             h2 == radixTreeChangeSon(h1, h1.father[a], FirstChar(newTxt), b)
         IN [h |-> radixTreeFreeNode(h2, a), res |-> UNSPECIFIED]

radixTreeMerge(h, a, b) ==
    IF MallocFails(h)
    THEN [h |-> Malloced(h), res |-> RADIX_TREE_OPERATION_FAIL]
    ELSE LET newTxt == copyText(h.txt[a], 0, Len(h.txt[a]))
                        \o copyText(h.txt[b], 0, Len(h.txt[b]))
             h1 == [Malloced(h) EXCEPT !.txt[b] = newTxt, !.father[b] = h.father[a]]
             h2 == radixTreeChangeSon(h1, h1.father[a], FirstChar(newTxt), b)
         IN [h |-> radixTreeFreeNode(h2, a), res |-> UNSPECIFIED]

\* mergeResult != RADIX_TREE_OPERATION_SUCCESS, where an unspecified
\* mergeResult compares as gv[1] says (gv has one entry per merge).
MergeNotSuccess(res, gv) ==
    IF res = UNSPECIFIED THEN gv # <<>> /\ Head(gv)
    ELSE res # RADIX_TREE_OPERATION_SUCCESS

\* One iteration of the loop, for the list seen: the node examined, what
\* was done with it and the value of skipped after it.
Step(node, did, skipped) == [node |-> node, did |-> did, skipped |-> skipped]

\* Mutant: the loop ends at a node that is neither removed nor merged.
RECURSIVE BalanceLoop_StopAtSkip(_, _, _, _, _)
BalanceLoop_StopAtSkip(h, pos, skipped, gv, seen) ==
    IF ~(~radixTreeIsRoot(h, pos) /\ skipped <= canSkip)
    THEN [h |-> h, pos |-> pos, skipped |-> skipped, seen |-> seen]
    ELSE IF radixTreeIsNodeRedundant(h, pos)
    THEN LET h1 == radixTreeChangeSon(h, h.father[pos], FirstChar(h.txt[pos]), NULL)
         IN BalanceLoop_StopAtSkip(radixTreeFreeNode(h1, pos), h.father[pos], skipped, gv,
                                   Append(seen, Step(pos, "remove", skipped)))
    ELSE IF radixTreeCanBeMergedWithSon(h, pos)
    THEN LET m == radixTreeMerge(h, pos, radixTreeFristSon(h, pos))
             s == IF MergeNotSuccess(m.res, gv) THEN skipped + 1 ELSE skipped
         IN BalanceLoop_StopAtSkip(m.h, h.father[pos], s,
                                   IF gv # <<>> THEN Tail(gv) ELSE gv,
                                   Append(seen, Step(pos, IF m.res = UNSPECIFIED THEN "merge"
                                                          ELSE "mergefail", s)))
    ELSE [h |-> h, pos |-> h.father[pos], skipped |-> skipped + 1,
          seen |-> Append(seen, Step(pos, "skip", skipped + 1))]

\* The while loop of radixTreeBalance.  seen lists the iterations of the
\* loop, one Step each.
RECURSIVE BalanceLoop(_, _, _, _, _)
BalanceLoop(h, pos, skipped, gv, seen) ==
    IF ~(~radixTreeIsRoot(h, pos) /\ skipped <= canSkip)
    THEN [h |-> h, pos |-> pos, skipped |-> skipped, seen |-> seen]
    ELSE IF radixTreeIsNodeRedundant(h, pos)
    THEN LET tmp == pos
             up == h.father[pos]
             h1 == radixTreeChangeSon(h, up, FirstChar(h.txt[tmp]), NULL)
         IN BalanceLoop(radixTreeFreeNode(h1, tmp), up, skipped, gv,
                        Append(seen, Step(tmp, "remove", skipped)))
    ELSE IF radixTreeCanBeMergedWithSon(h, pos)
    THEN LET tmp == pos
             up == h.father[pos]
             m == radixTreeMerge(h, tmp, radixTreeFristSon(h, tmp))
             unspec == m.res = UNSPECIFIED
             notOk == MergeNotSuccess(m.res, gv)
             s == IF notOk THEN skipped + 1 ELSE skipped
         IN BalanceLoop(m.h, up, s,
                        IF gv # <<>> THEN Tail(gv) ELSE gv,
                        Append(seen, Step(tmp, IF unspec THEN "merge" ELSE "mergefail", s)))
    ELSE BalanceLoop(h, h.father[pos], skipped + 1, gv,
                     Append(seen, Step(pos, "skip", skipped + 1)))

radixTreeBalance(h, node, gv) == BalanceLoop(h, node, 0, gv, <<>>)

\* ---------------------------------------------------------------- inputs
Digits == {CHAR_ZERO + d : d \in 1..MaxDigit}
Keys == UNION {[1..n -> Digits] : n \in 0..MaxLen}
DeepKeys == {[i \in 1..n |-> CHAR_ZERO + 1] : n \in 1..MaxDeep}
\* "123", "124", "13", "12", "1"
ExKeys == {<<49, 50, 51>>, <<49, 50, 52>>, <<49, 51>>, <<49, 50>>, <<49>>}
Payloads == 1..MaxData

\* Outcomes of the mallocs of one call: all succeed, or the k-th fails
\* (an insert stops at its first failed malloc).
FailAt(k) == [i \in 1..k |-> i = k]
InsertFails == {<<>>} \cup {FailAt(k) : k \in 1..MaxMallocs}
\* What happens to the merges of one balance, one after the other: "fail"
\* (malloc fails), "ok" (the unspecified value radixTreeMerge returns equals
\* RADIX_TREE_OPERATION_SUCCESS) or "other" (it does not).  The first
\* MaxMerges go any way, or all go the same way.
MergeOutcomes == {"ok", "other", "fail"}
All(o) == [i \in 1..MaxDeep |-> o]
BalanceInputs == [1..MaxMerges -> MergeOutcomes] \cup {All(o) : o \in MergeOutcomes}
FailsOf(mo) == [i \in 1..Len(mo) |-> mo[i] = "fail"]
GarbageOf(mo) == [i \in 1..Len(mo) |-> mo[i] = "other"]

Store(h) ==
    /\ alloc' = h.alloc
    /\ txt' = h.txt
    /\ data' = h.data
    /\ father' = h.father
    /\ sons' = h.sons
    /\ err' = h.err

\* ----------------------------------------------------------------- state
radixTreeInitTree(h, t) ==
    [radixTreeInitNode(h, t) EXCEPT !.txt[t] = RADIX_TREE_ROOT_TXT]

\* Returns the heap and the tree (NULL when malloc failed).
radixTreeCreate(h) ==
    IF NodeMallocFails(h)
    THEN [h |-> Malloced(h), node |-> NULL]
    ELSE LET t == FreshNode(h, <<>>)
         IN [h |-> radixTreeInitTree([Malloced(h) EXCEPT !.alloc = @ \cup {t}], t),
             node |-> t]

\* A tree that radixTreeCreate has just returned, in a memory of n nodes,
\* held by a caller whose keys are ks.
Created(n, ks) ==
    /\ tree = 1
    /\ alloc = {1}
    /\ txt = [x \in {1} |-> RADIX_TREE_ROOT_TXT]
    /\ data = [x \in {1} |-> NULL]
    /\ father = [x \in {1} |-> NULL]
    /\ sons = [x \in {1} |-> NoSons]
    /\ err = FALSE
    /\ cap = n
    /\ keys = ks
    /\ ins = {}
    /\ hist = <<>>

Init == Created(MaxNodes, Keys)

\* radixTreeCreate(), once the caller holds no tree.
Create(fs) ==
    /\ tree = NULL
    /\ LET r == radixTreeCreate(Heap(fs))
       IN /\ Store(r.h)
          /\ tree' = r.node
    /\ UNCHANGED <<cap, keys, ins, hist>>

\* radixTreeInsert(tree, key)
InsertCall(key, fs) ==
    /\ tree # NULL
    /\ Store(radixTreeInsert(Heap(fs), tree, key).h)
    /\ UNCHANGED <<tree, cap, keys>>

Insert(key, fs) == InsertCall(key, fs) /\ UNCHANGED <<ins, hist>>

\* radixTreeSetData(node, ptr)
radixTreeSetData(h, node, ptr) == [h EXCEPT !.data[node] = ptr]

SetData(node, ptr) ==
    /\ node \in alloc
    /\ Store(radixTreeSetData(Heap(<<>>), node, ptr))
    /\ UNCHANGED <<tree, cap, keys, ins, hist>>

\* radixTreeBalance(node)
Balance(node, mo) ==
    /\ node \in alloc
    /\ Store(radixTreeBalance(Heap(FailsOf(mo)), node, GarbageOf(mo)).h)
    /\ UNCHANGED <<tree, cap, keys, ins, hist>>

\* radixTreeDeleteSubTree(node, f, fData); radixTreeDelete when node is the root.
DeleteSubTree(node) ==
    /\ node \in alloc
    /\ Store(radixTreeDeleteSubTree(Heap(<<>>), node).h)
    /\ tree' = IF node = tree THEN NULL ELSE tree
    /\ UNCHANGED <<cap, keys, ins, hist>>

Next ==
    \/ \E fs \in {<<>>, FailAt(1)} : Create(fs)
    \/ \E key \in keys, fs \in InsertFails : Insert(key, fs)
    \/ \E node \in alloc, ptr \in Payloads \cup {NULL} : SetData(node, ptr)
    \/ \E node \in alloc, mo \in BalanceInputs : Balance(node, mo)
    \/ \E node \in alloc : DeleteSubTree(node)

Spec == Init /\ [][Next]_vars

\* The same calls on a tree of one long branch: the keys 1, 11, 111, ...
InitDeep == Created(MaxDeep + 1, DeepKeys)
SpecDeep == InitDeep /\ [][Next]_vars

\* No assertion fails and no array is indexed out of range.
NoErr == ~err

\* ------------------------------------------------- sequences of inserts
\* radixTreeInsert, the caller noting the keys it has inserted.
InsertNoted(key, fs) ==
    /\ InsertCall(key, fs)
    /\ ins' = IF radixTreeInsert(Heap(fs), tree, key).node # NULL
              THEN ins \cup {key} ELSE ins
    /\ UNCHANGED hist

NextIns ==
    \/ \E key \in keys, fs \in InsertFails : InsertNoted(key, fs)
    \/ \E node \in alloc, ptr \in Payloads \cup {NULL} : SetData(node, ptr)

SpecIns == Init /\ [][NextIns]_vars

\* Runs of at most MaxHist inserts of the keys of the worked example.
InsertListed(key, fs) ==
    /\ Len(hist) < MaxHist
    /\ InsertCall(key, fs)
    /\ hist' = IF radixTreeInsert(Heap(fs), tree, key).node # NULL
               THEN Append(hist, key) ELSE hist
    /\ UNCHANGED ins

InitEx == Created(2 * MaxHist + 1, ExKeys)
NextEx == \E key \in keys, fs \in InsertFails : InsertListed(key, fs)
SpecEx == InitEx /\ [][NextEx]_vars

Now == Heap(<<>>)

\* C1: after any sequence of insert calls on a created tree, every key K
\* that was inserted is Found by radixTreeFind, and radixGetFullText of the
\* node found is K.
C1_InsertedKeysFound ==
    \A K \in ins :
        LET f == radixTreeFind(Now, tree, K)
        IN /\ f.res = RADIX_TREE_FOUND
           /\ radixGetFullText(Now, f.ptr) = K

\* Two keys were inserted and a split has made a node for a key that was
\* not inserted.
C1_Witness ==
    /\ Cardinality(ins) >= 2
    /\ \E n \in alloc : FullText(Now, n) \notin ins \cup {<<>>}

\* ------------------------------------------------------------ the claims
\* The tree a heap holds, without the bookkeeping of the call that made it.
TreeOf(h) == <<h.alloc, h.txt, h.data, h.father, h.sons>>
\* The heap h at the start of another call whose mallocs go as fs says.
Again(h, fs) == [h EXCEPT !.fs = fs, !.nfail = 0]
AnyData == Payloads \cup {NULL}

\* C2: when radixTreeInsert(tree, K) has returned a node, and whatever
\* radixTreeSetData has put on that node since, radixTreeInsert(tree, K)
\* returns the same node again and changes nothing: not a node, a label
\* or a link, and not the payload.
C2_InsertIdempotent ==
    tree # NULL =>
    \A K \in keys, fs \in InsertFails :
        LET r1 == radixTreeInsert(Heap(fs), tree, K)
        IN r1.node # NULL =>
           \A ptr \in AnyData, fs2 \in {<<>>, FailAt(1)} :
               LET h2 == radixTreeSetData(r1.h, r1.node, ptr)
                   r2 == radixTreeInsert(Again(h2, fs2), tree, K)
               IN /\ r2.node = r1.node
                  /\ TreeOf(r2.h) = TreeOf(h2)
                  /\ r2.h.data[r2.node] = ptr

\* A tree with a payload in it where some key is inserted by a split and a
\* new leaf.
C2_Witness ==
    /\ tree # NULL
    /\ \E n \in alloc : data[n] # NULL
    /\ \E K \in keys :
        LET r1 == radixTreeInsert(Now, tree, K)
        IN r1.node # NULL /\ r1.splits = 1 /\ Cardinality(r1.h.alloc) = Cardinality(alloc) + 2

\* node and everything below it, by the sons[] slots.
RECURSIVE Desc(_, _)
Desc(h, n) ==
    IF n \notin h.alloc THEN {n}
    ELSE {n} \cup UNION {Desc(h, h.sons[n][i]) : i \in {j \in Slots : h.sons[n][j] # NULL}}

\* The nodes that can be reached from the tree the caller holds.
Reachable(h, t) == IF t = NULL THEN {} ELSE Desc(h, t)

SlotOf(label) == radixTreeConvertCharToNumber(FirstChar(label))

\* C3: whatever calls were made and whichever mallocs failed, every node
\* but the root has a label that is not empty and sits in exactly one slot
\* of its father, the slot of the label's first character; so every slot
\* that is in use holds a node whose label starts with the slot's character
\* and two brothers never start with the same character.
C3_TrieShape ==
    /\ \A n \in alloc \ {tree} :
        /\ txt[n] # <<>>
        /\ father[n] \in alloc
        /\ \A i \in Slots : sons[father[n]][i] = n <=> i = SlotOf(txt[n])
    /\ \A p \in alloc, i \in Slots :
        sons[p][i] # NULL =>
            /\ sons[p][i] \in alloc \ {tree}
            /\ SlotOf(txt[sons[p][i]]) = i

\* A node below the root has two sons with labels of different lengths:
\* splits have been made, and a leaf was added under a split node.
C3_Witness ==
    \E p \in alloc \ {tree}, i \in Slots, j \in Slots :
        /\ i # j /\ sons[p][i] # NULL /\ sons[p][j] # NULL
        /\ Len(txt[sons[p][i]]) # Len(txt[sons[p][j]])

Count(log, ev) == Cardinality({k \in 1..Len(log) : log[k] = ev})
FinsOf(log, n) == {k \in 1..Len(log) : log[k].e = "fin" /\ log[k].node = n}

\* C4: radixTreeDeleteSubTree(node, f, fData) calls f once for every node
\* at or below node that holds a payload, with that payload, and for no
\* other node; afterwards every node that was at or below node is freed,
\* none of them can be reached from the tree, and no slot of node's former
\* father holds node.
C4_DeleteSubTree ==
    \A node \in alloc :
        LET sub == Desc(Now, node)
            r == radixTreeDeleteSubTree(Now, node)
            left == IF node = tree THEN NULL ELSE tree
        IN /\ \A n \in alloc :
                IF n \in sub /\ data[n] # NULL
                THEN /\ Cardinality(FinsOf(r.log, n)) = 1
                     /\ Count(r.log, Fin(n, data[n])) = 1
                ELSE FinsOf(r.log, n) = {}
           /\ r.h.alloc = alloc \ sub
           /\ Reachable(r.h, left) \cap sub = {}
           /\ node # tree => \A i \in Slots : r.h.sons[father[node]][i] # node

\* A node below the root with nodes below it, some with a payload and some
\* without.
C4_Witness ==
    \E node \in alloc \ {tree} :
        /\ \E n \in Desc(Now, node) \ {node} : data[n] # NULL
        /\ \E n \in Desc(Now, node) : data[n] = NULL

\* C5: when radixTreeInsert(tree, key) returns NULL because a malloc
\* failed, the tree is what it was before the call: the same nodes, labels,
\* links and payloads; also when the failed malloc came after a split.
C5_FailedInsertRestores ==
    [][\A K \in keys, fs \in InsertFails :
          Insert(K, fs) /\ radixTreeInsert(Heap(fs), tree, K).node = NULL
              => UNCHANGED <<alloc, txt, data, father, sons>>]_vars

\* The part of C5 the code keeps: a failed insert that made no split leaves
\* the tree as it was.
C5_FailedInsertWithoutSplit ==
    tree # NULL =>
    \A K \in keys, fs \in InsertFails :
        LET r == radixTreeInsert(Heap(fs), tree, K)
        IN r.node = NULL /\ r.splits = 0 => TreeOf(r.h) = TreeOf(Now)

Prefix(label, k) == SubSeq(label, 1, k)
Rest(label, k) == SubSeq(label, k + 1, Len(label))
\* The mallocs of one split: node, textA, textB.
SplitFails == {<<>>, FailAt(1), FailAt(2), FailAt(3)}

\* C6: radixTreeSplitNode(N, boundary), the boundary cutting N's label into
\* a prefix P and a rest R that are not empty, either fails, when one of
\* its three mallocs fails, and then leaves the tree as it was, or adds
\* exactly one node M: M has the label P, no payload, N's former father and
\* N's former slot there, and N as its only son, in the slot of R's first
\* character; N has the label R and keeps its payload and its sons; no
\* other node changes but in that one slot of the former father.
C6_Split ==
    \A N \in alloc \ {tree}, fs \in SplitFails :
      \A k \in 1..(Len(txt[N]) - 1) :
        LET r == radixTreeSplitNode(Heap(fs), N, k)
            P == Prefix(txt[N], k)
            R == Rest(txt[N], k)
            up == father[N]
        IN IF fs # <<>> \/ Cardinality(alloc) >= cap
           THEN /\ r.res = RADIX_TREE_OPERATION_FAIL
                /\ TreeOf(r.h) = TreeOf(Now)
           ELSE /\ r.res = RADIX_TREE_OPERATION_SUCCESS
                /\ Cardinality(r.h.alloc \ alloc) = 1
                /\ alloc \subseteq r.h.alloc
                /\ \A M \in r.h.alloc \ alloc :
                    /\ r.h.txt[M] = P
                    /\ r.h.data[M] = NULL
                    /\ r.h.father[M] = up
                    /\ r.h.sons[up] = [sons[up] EXCEPT ![SlotOf(P)] = M]
                    /\ sons[up][SlotOf(P)] = N
                    /\ r.h.sons[M] = [NoSons EXCEPT ![SlotOf(R)] = N]
                    /\ r.h.father[N] = M
                /\ r.h.txt[N] = R
                /\ r.h.data[N] = data[N]
                /\ r.h.sons[N] = sons[N]
                /\ \A n \in alloc \ {N} :
                    /\ r.h.txt[n] = txt[n]
                    /\ r.h.data[n] = data[n]
                    /\ r.h.father[n] = father[n]
                    /\ n # up => r.h.sons[n] = sons[n]

\* A node with a payload, a son and a label of two characters whose first
\* is not the second, and room for one more node: the split succeeds, and
\* fails when a malloc does.
C6_Witness ==
    \E N \in alloc \ {tree} :
        /\ Len(txt[N]) = 2 /\ txt[N][1] # txt[N][2]
        /\ data[N] # NULL
        /\ radixTreeHasSons(Now, N)
        /\ Cardinality(alloc) < cap
        /\ radixTreeSplitNode(Now, N, 1).res = RADIX_TREE_OPERATION_SUCCESS
        /\ radixTreeSplitNode(Heap(FailAt(3)), N, 1).res = RADIX_TREE_OPERATION_FAIL

\* C7: radixTreeSetData(node, NULL), then radixTreeBalance(node): every
\* node that still holds a payload is still allocated, holds the same
\* payload, and radixTreeFind of its key reports RADIX_TREE_FOUND and
\* returns it; whichever merges failed, whatever value the merges that did
\* not fail returned, and whether or not the loop ended on skipped.
C7_BalanceKeepsKeys ==
    \A node \in alloc, mo \in BalanceInputs :
        LET h0 == radixTreeSetData(Now, node, NULL)
            r == radixTreeBalance(Again(h0, FailsOf(mo)), node, GarbageOf(mo))
        IN \A n \in alloc :
            h0.data[n] # NULL =>
                /\ n \in r.h.alloc
                /\ r.h.data[n] = h0.data[n]
                /\ LET f == radixTreeFind(r.h, tree, FullText(h0, n))
                   IN f.res = RADIX_TREE_FOUND /\ f.ptr = n

\* A balance in which a merge fails, a node is merged, and the loop ends
\* below the root because skipped has passed canSkip, with a payload left
\* in the tree.
C7_Witness ==
    \E node \in alloc \ {tree}, mo \in BalanceInputs :
        LET h0 == radixTreeSetData(Now, node, NULL)
            r == radixTreeBalance(Again(h0, FailsOf(mo)), node, GarbageOf(mo))
        IN /\ data[node] # NULL
           /\ r.pos # tree /\ r.skipped > canSkip
           /\ \E k \in 1..Len(r.seen) : r.seen[k].did = "mergefail"
           /\ \E k \in 1..Len(r.seen) : r.seen[k].did = "merge"
           /\ \E n \in alloc : h0.data[n] # NULL

\* The inputs of a balance none of whose mallocs fails.
NoFailInputs == {mo \in BalanceInputs : \A i \in 1..Len(mo) : mo[i] # "fail"}

PayloadLess(n) == n # tree /\ data[n] = NULL
OtherSon(p, n) == CHOOSE c \in alloc : c # n /\ \E i \in Slots : sons[p][i] = c

\* The node c ends under and the label it ends with, when a, the next
\* node above the ones merged into c so far, is merged too if it is a
\* payload-less node with one son and is not the root, as long as the
\* budget lasts: gv says which of the merges to come count as a step.
RECURSIVE MergedUp(_, _, _, _)
MergedUp(a, label, gv, skipped) ==
    IF PayloadLess(a) /\ radixTreeHowManySons(Now, a) = 1 /\ skipped <= canSkip
    THEN MergedUp(father[a], txt[a] \o label,
                  IF gv # <<>> THEN Tail(gv) ELSE gv,
                  IF gv # <<>> /\ Head(gv) THEN skipped + 1 ELSE skipped)
    ELSE [father |-> a, label |-> label]

\* In the heap h, a is gone and c stands where e says, as it was otherwise.
MergedAs(h, a, c, e) ==
    /\ a \notin h.alloc
    /\ c \in h.alloc
    /\ h.txt[c] = e.label
    /\ h.father[c] = e.father
    /\ h.sons[e.father][SlotOf(e.label)] = c
    /\ h.data[c] = data[c]
    /\ h.sons[c] = sons[c]

\* What C8 says of a merge of a into its son c: c's label is a's label
\* followed by c's, and c has a's slot under a's former father.
MergedOnce(h, a, c) ==
    MergedAs(h, a, c, [father |-> father[a], label |-> txt[a] \o txt[c]])

\* The same, a's former father and the nodes above it being merged in turn
\* as long as they are payload-less nodes with one son.
MergedChain(h, a, c, gv) ==
    MergedAs(h, a, c, MergedUp(father[a], txt[a] \o txt[c],
                               IF gv # <<>> THEN Tail(gv) ELSE gv,
                               IF gv # <<>> /\ Head(gv) THEN 1 ELSE 0))

\* radixTreeBalance(node) on a node that is not the root and has no
\* payload, no malloc failing: a node without sons is freed and its key is
\* RADIX_TREE_NOT_FOUND afterwards; the node itself if it has one son, or
\* its former father if that was a payload-less node with two sons, is
\* merged into the one son: once if chain is FALSE, and if it is TRUE
\* with the nodes above it that are merged in turn.
Merged(h, a, c, gv, chain) ==
    IF chain THEN MergedChain(h, a, c, gv) ELSE MergedOnce(h, a, c)

BalanceMerges(chain) ==
    \A node \in alloc \ {tree}, mo \in NoFailInputs :
        data[node] = NULL =>
        LET r == radixTreeBalance(Heap(FailsOf(mo)), node, GarbageOf(mo))
            n == radixTreeHowManySons(Now, node)
            p == father[node]
        IN /\ n = 0 =>
                /\ node \notin r.h.alloc
                /\ radixTreeFind(r.h, tree, FullText(Now, node)).res = RADIX_TREE_NOT_FOUND
                /\ PayloadLess(p) /\ radixTreeHowManySons(Now, p) = 2
                     => Merged(r.h, p, OtherSon(p, node), GarbageOf(mo), chain)
           /\ n = 1 => Merged(r.h, node, radixTreeFristSon(Now, node), GarbageOf(mo), chain)

\* C8 as claimed: the son a node is merged into ends with the label of the
\* merged node followed by its own, in the merged node's slot under the
\* merged node's former father.
C8_BalanceMergesOnce == BalanceMerges(FALSE)

\* C8 as amended: ... and when the merged node's former father is itself a
\* payload-less node with one son and not the root, the same call merges it
\* into that son too, and so on upwards: the son ends with the labels of
\* all the merged nodes in front of its own, in the slot of the first node
\* above that was not merged (the first that is the root, holds a payload,
\* has two sons or more, or is reached with the budget of steps used up).
C8_BalanceMergesChain == BalanceMerges(TRUE)

\* A payload-less leaf whose father, not the root, has no payload and one
\* other son: balance frees the leaf and merges the father ("12" and "13"
\* inserted, balance on the node of "12").
C8_Witness ==
    \E node \in alloc \ {tree} :
        /\ data[node] = NULL /\ ~radixTreeHasSons(Now, node)
        /\ PayloadLess(father[node])
        /\ radixTreeHowManySons(Now, father[node]) = 2
        /\ LET r == radixTreeBalance(Now, node, <<>>)
           IN /\ Cardinality(r.h.alloc) = Cardinality(alloc) - 2
              /\ \E k \in 1..Len(r.seen) : r.seen[k].did = "merge"

\* "123", "124", "13": the keys of the example, and "12".
Key123 == <<CHAR_ZERO + 1, CHAR_ZERO + 2, CHAR_ZERO + 3>>
Key124 == <<CHAR_ZERO + 1, CHAR_ZERO + 2, CHAR_ZERO + 4>>
Key13 == <<CHAR_ZERO + 1, CHAR_ZERO + 3>>
Key12 == <<CHAR_ZERO + 1, CHAR_ZERO + 2>>
Example == hist = <<Key123, Key124, Key13>>
SonsLabels(n) == {txt[sons[n][i]] : i \in {j \in Slots : sons[n][j] # NULL}}

\* After "123", "124" and "13" were inserted in that order into an empty
\* tree, radixTreeFind of "123" is RADIX_TREE_FOUND at a node whose full
\* text is "123".
Found123 ==
    LET f == radixTreeFind(Now, tree, Key123)
    IN f.res = RADIX_TREE_FOUND /\ radixGetFullText(Now, f.ptr) = Key123

\* C9 as claimed: after the three inserts radixTreeFind of "123" is
\* RADIX_TREE_FOUND with full text "123" and radixTreeFind of "12" is
\* RADIX_TREE_SUBSTR.
C9_ExampleSubstr ==
    Example =>
        /\ Found123
        /\ radixTreeFind(Now, tree, Key12).res = RADIX_TREE_SUBSTR

\* C9 as amended: after the three inserts radixTreeFind of "123" is
\* RADIX_TREE_FOUND with full text "123", and radixTreeFind of "12" is
\* RADIX_TREE_FOUND too: the insert of "124" split the node of "123" and
\* left a node without a payload whose full text is "12" and whose sons
\* are labelled "3" and "4".
C9_ExampleFound ==
    Example =>
        /\ Found123
        /\ LET f == radixTreeFind(Now, tree, Key12)
           IN /\ f.res = RADIX_TREE_FOUND
              /\ radixGetFullText(Now, f.ptr) = Key12
              /\ data[f.ptr] = NULL
              /\ SonsLabels(f.ptr) = {<<CHAR_ZERO + 3>>, <<CHAR_ZERO + 4>>}

\* The three inserts of the example were made, and no other insert left
\* a node: the tree has the root, the three leaves and the two nodes the
\* splits made.
C9_Witness == Example /\ Cardinality(alloc) = 6

\* Where in the log the finalizer call, the free, and the clearing of the
\* father's slot of node n are.
EventsAt(log, e, n) == {k \in 1..Len(log) : log[k].e = e /\ log[k].node = n}
Destroyed(log, n) == EventsAt(log, "fin", n) \cup EventsAt(log, "free", n)

\* C10: in radixTreeDeleteSubTree(node, f, fData) every node at or below
\* node is freed once; f is called for a node, and the node freed, only
\* after f was called for every node below it that held a payload and
\* every node below it was freed; the free of node is the last thing
\* done; and the slot of a node in its father is cleared only after all
\* the sons of that node were freed.
C10_PostOrder ==
    \A node \in alloc :
        LET log == radixTreeDeleteSubTree(Now, node).log
            sub == Desc(Now, node)
        IN /\ \A n \in sub : Cardinality(EventsAt(log, "free", n)) = 1
           /\ \A n \in sub :
                \A d \in Desc(Now, n) \ {n} :
                    \A i \in Destroyed(log, d), j \in Destroyed(log, n) : i < j
           /\ log[Len(log)] = Fre(node)
           /\ \A n \in sub \ {node} : EventsAt(log, "clr", n) # {}
           /\ \A n \in sub, c \in alloc :
                father[c] = n =>
                    \A i \in Destroyed(log, c), j \in EventsAt(log, "clr", n) : i < j

\* A node with a payload that has a son with a payload that has a son with
\* a payload: three finalizer calls whose order matters.
C10_Witness ==
    \E node \in alloc, n \in alloc, d \in alloc :
        /\ father[n] = node /\ father[d] = n
        /\ data[node] # NULL /\ data[n] # NULL /\ data[d] # NULL
        /\ Len(radixTreeDeleteSubTree(Now, node).log) >= 8

\* C11: in radixTreeDeleteSubTree(node, f, fData) every call of f for the
\* payload of a node that is not the root comes after the slot of that
\* node in its father was cleared, and before the node is freed.
C11_FinalizerAfterDetach ==
    \A node \in alloc :
        LET log == radixTreeDeleteSubTree(Now, node).log
        IN \A n \in Desc(Now, node) \ {tree} :
            \A k \in EventsAt(log, "fin", n) :
                /\ \E i \in EventsAt(log, "clr", n) : i < k
                /\ \A j \in EventsAt(log, "free", n) : k < j

\* What the code does: f is called for a node while the node is still in
\* the slot of its father, and the node is freed after that.
C11_FinalizerBeforeDetach ==
    \A node \in alloc :
        LET log == radixTreeDeleteSubTree(Now, node).log
        IN \A n \in Desc(Now, node) \ {tree} :
            \A k \in EventsAt(log, "fin", n) :
                /\ \A i \in EventsAt(log, "clr", n) : k < i
                /\ \A j \in EventsAt(log, "free", n) : k < j

\* The nodes at and below p, each with the labels on the way down to it
\* from the root through the slots, prefix being those down to p.
RECURSIVE Down(_, _, _)
Down(h, p, prefix) ==
    {<<p, prefix>>} \cup
    UNION {Down(h, h.sons[p][i], prefix \o h.txt[h.sons[p][i]]) :
             i \in {j \in Slots : h.sons[p][j] # NULL}}

\* C12: after any calls of radixTreeInsert, radixTreeSetData,
\* radixTreeBalance and radixTreeDeleteSubTree, the node in a slot of p has
\* p as its father, every node but the root is in a slot of its father,
\* and radixGetFullText of every node that can be reached from the root
\* is the labels on the way down from the root to it, one after another.
C12_LinksAgree ==
    tree # NULL =>
        /\ \A p \in alloc, i \in Slots :
            sons[p][i] # NULL => sons[p][i] \in alloc /\ father[sons[p][i]] = p
        /\ \A n \in alloc \ {tree} :
            father[n] \in alloc /\ \E i \in Slots : sons[father[n]][i] = n
        /\ \A x \in Down(Now, tree, <<>>) : radixGetFullText(Now, x[1]) = x[2]

\* A node two levels below the root whose key has three characters, one
\* of the labels on the way having two: made by a split or by a merge.
C12_Witness ==
    /\ tree # NULL
    /\ \E x \in Down(Now, tree, <<>>) :
        /\ Len(x[2]) = 3
        /\ x[1] # tree /\ father[x[1]] # tree /\ father[father[x[1]]] = tree
        /\ radixGetFullText(Now, x[1]) = x[2]

\* The steps of one radixTreeBalance that used the budget: the nodes it
\* went past because they hold a payload or have two sons or more, and the
\* merges whose malloc failed.
BudgetSteps(seen) ==
    Cardinality({k \in 1..Len(seen) : seen[k].did \in {"skip", "mergefail"}})

\* C13: one call of radixTreeBalance takes at most canSkip (5) steps that
\* use the budget, whatever the node and whichever mallocs fail.
C13_AtMostFiveSteps ==
    \A node \in alloc, mo \in BalanceInputs :
        BudgetSteps(radixTreeBalance(Heap(FailsOf(mo)), node, GarbageOf(mo)).seen) <= canSkip

\* What the code does: the loop goes on while skipped <= canSkip, so a
\* call takes up to canSkip + 1 such steps, and no more.
C13_AtMostSixSteps ==
    \A node \in alloc, mo \in BalanceInputs :
        LET r == radixTreeBalance(Heap(FailsOf(mo)), node, GarbageOf(mo))
        IN /\ BudgetSteps(r.seen) <= canSkip + 1
           /\ r.skipped <= canSkip + 1

\* C14 as claimed: a node that radixTreeBalance finds with a payload or
\* with two sons or more is the last node the call examines.
C14_StopsAtKeptNode ==
    \A node \in alloc, mo \in BalanceInputs :
        LET seen == radixTreeBalance(Heap(FailsOf(mo)), node, GarbageOf(mo)).seen
        IN \A k \in 1..Len(seen) : seen[k].did = "skip" => k = Len(seen)

\* C14 as amended: such a node uses one step of the budget and the call
\* goes on with its father: unless the father is the root or the budget
\* is used up (skipped > canSkip), the father is the next node examined,
\* and a father that can be merged with its one son then is merged when
\* the malloc succeeds.
C14_ClimbsPastKeptNode ==
    \A node \in alloc, mo \in BalanceInputs :
        LET r == radixTreeBalance(Heap(FailsOf(mo)), node, GarbageOf(mo))
            seen == r.seen
        IN \A k \in 1..Len(seen) :
            seen[k].did = "skip" =>
                LET up == father[seen[k].node]
                IN /\ seen[k].skipped = (IF k = 1 THEN 0 ELSE seen[k - 1].skipped) + 1
                   /\ seen[k].node \in r.h.alloc
                   /\ IF up = tree \/ seen[k].skipped > canSkip
                      THEN k = Len(seen)
                      ELSE /\ k < Len(seen)
                           /\ seen[k + 1].node = up
                           /\ PayloadLess(up) /\ radixTreeHowManySons(Now, up) = 1
                                => /\ seen[k + 1].did \in {"merge", "mergefail"}
                                   /\ seen[k + 1].did = "merge" => up \notin r.h.alloc

\* A node with a payload whose father, not the root, has no payload and
\* no other son: balance on the node goes past it and merges the father.
C14_Witness ==
    \E node \in alloc \ {tree} :
        /\ data[node] # NULL
        /\ PayloadLess(father[node])
        /\ radixTreeHowManySons(Now, father[node]) = 1
        /\ LET r == radixTreeBalance(Now, node, <<>>)
           IN /\ Len(r.seen) >= 2
              /\ r.seen[1].did = "skip" /\ r.seen[2].did = "merge"
              /\ father[node] \notin r.h.alloc

\* The value of skipped before the k-th iteration of the loop.
SkippedBefore(seen, k) == IF k = 1 THEN 0 ELSE seen[k - 1].skipped

\* After the k-th iteration, on a node that was merged or whose merge
\* failed, the loop goes on with the father that node had, or ends if that
\* is the root or the budget is used up.
GoesOnFromFather(seen, k, up) ==
    IF up = tree \/ seen[k].skipped > canSkip
    THEN k = Len(seen)
    ELSE k < Len(seen) /\ seen[k + 1].node = up

\* The father a node examined by balance had when the call began: nothing
\* the call does below a node changes the father of that node.
FatherThen(n) == father[n]

\* C15: in radixTreeBalance a merge whose malloc fails adds one to skipped
\* and changes nothing in the tree, a merge whose malloc succeeds adds
\* nothing to skipped, and after both the loop goes on with the father the
\* merged node had.
C15_MergeAndBudget ==
    \A node \in alloc, mo \in BalanceInputs :
        LET seen == radixTreeBalance(Heap(FailsOf(mo)), node, GarbageOf(mo)).seen
        IN \A k \in 1..Len(seen) :
            /\ seen[k].did = "mergefail" =>
                /\ seen[k].skipped = SkippedBefore(seen, k) + 1
                /\ GoesOnFromFather(seen, k, FatherThen(seen[k].node))
            /\ seen[k].did = "merge" =>
                /\ seen[k].skipped = SkippedBefore(seen, k)
                /\ GoesOnFromFather(seen, k, FatherThen(seen[k].node))

\* What holds of the code: a failed malloc in radixTreeMerge leaves the
\* tree as it was and the merge is counted; a merge that was made is
\* counted or not, as the value that radixTreeMerge happens to return has
\* it; the loop goes on with the father in both cases.
C15_FailedMergeCounted ==
    /\ \A a \in alloc \ {tree} :
        radixTreeCanBeMergedWithSon(Now, a) =>
            LET m == radixTreeMerge(Again(Now, FailAt(1)), a, radixTreeFristSon(Now, a))
            IN m.res = RADIX_TREE_OPERATION_FAIL /\ TreeOf(m.h) = TreeOf(Now)
    /\ \A node \in alloc, mo \in BalanceInputs :
        LET seen == radixTreeBalance(Heap(FailsOf(mo)), node, GarbageOf(mo)).seen
        IN \A k \in 1..Len(seen) :
            /\ seen[k].did = "mergefail" =>
                /\ seen[k].skipped = SkippedBefore(seen, k) + 1
                /\ GoesOnFromFather(seen, k, FatherThen(seen[k].node))
            /\ seen[k].did = "merge" =>
                /\ seen[k].skipped \in {SkippedBefore(seen, k), SkippedBefore(seen, k) + 1}
                /\ GoesOnFromFather(seen, k, FatherThen(seen[k].node))

\* The keys radixTreeFind is asked for: the keys of the caller and those
\* one character longer.
FindKeys == Keys \cup {Append(k, c) : k \in Keys, c \in Digits}

IsPrefix(a, b) == Len(a) <= Len(b) /\ SubSeq(b, 1, Len(a)) = a

\* C16: radixTreeFind(tree, K) is RADIX_TREE_FOUND exactly when K is the
\* labels on the way down to some node, with or without a payload, and
\* then gives that node; RADIX_TREE_SUBSTR exactly when K ends inside the
\* label of some node, being the beginning of the labels down to it, and
\* then gives that node; and RADIX_TREE_NOT_FOUND otherwise, with
\* nodeMatchPtr at the end of the label of the node given exactly when
\* the descent stopped at an empty slot.
C16_Find ==
    tree # NULL =>
    \A K \in FindKeys :
        LET f == radixTreeFind(Now, tree, K)
            D == Down(Now, tree, <<>>)
            exact == {x \in D : x[2] = K}
            inside == {x \in D : /\ x[1] # tree
                                 /\ IsPrefix(K, x[2]) /\ K # x[2]
                                 /\ Len(K) > Len(x[2]) - Len(txt[x[1]])}
            above == {x \in D : IsPrefix(x[2], K) /\ x[2] # K}
            last == CHOOSE x \in above : \A y \in above : Len(y[2]) <= Len(x[2])
            emptySlot == sons[last[1]][radixTreeConvertCharToNumber(K[Len(last[2]) + 1])] = NULL
        IN /\ f.res = RADIX_TREE_FOUND <=> exact # {}
           /\ f.res = RADIX_TREE_FOUND => exact = {<<f.ptr, K>>}
           /\ f.res = RADIX_TREE_SUBSTR <=> inside # {}
           /\ f.res = RADIX_TREE_SUBSTR =>
                /\ \A x \in inside : x[1] = f.ptr
                /\ f.nm = Len(K) - (Len(FullText(Now, f.ptr)) - Len(txt[f.ptr]))
           /\ f.res = RADIX_TREE_NOT_FOUND <=> exact = {} /\ inside = {}
           /\ f.res = RADIX_TREE_NOT_FOUND =>
                /\ f.nm = Len(txt[f.ptr]) <=> emptySlot
                /\ emptySlot => f.ptr = last[1]
                /\ ~emptySlot => father[f.ptr] = last[1]

\* A tree and keys for each answer: a key that is found at a node without
\* a payload that a split has made, a key that ends inside a label, a key that stops at an
\* empty slot below the root and a key that leaves a label in the middle.
C16_Witness ==
    /\ tree # NULL
    /\ \E K \in FindKeys : LET f == radixTreeFind(Now, tree, K)
                           IN /\ f.res = RADIX_TREE_FOUND /\ K # <<>> /\ data[f.ptr] = NULL
                              /\ radixTreeHowManySons(Now, f.ptr) >= 2
    /\ \E K \in FindKeys : radixTreeFind(Now, tree, K).res = RADIX_TREE_SUBSTR
    /\ \E K \in FindKeys : LET f == radixTreeFind(Now, tree, K)
                           IN /\ f.res = RADIX_TREE_NOT_FOUND
                              /\ f.ptr # tree /\ f.nm = Len(txt[f.ptr])
    /\ \E K \in FindKeys : LET f == radixTreeFind(Now, tree, K)
                           IN /\ f.res = RADIX_TREE_NOT_FOUND
                              /\ f.nm < Len(txt[f.ptr]) /\ f.nm > 0

\* radixTreeFind left the label of the node it gives in the middle.
MidLabel(h, f) == f.res = RADIX_TREE_NOT_FOUND /\ f.nm # Len(h.txt[f.ptr])

\* C17: one radixTreeInsert(tree, K) makes at most one split, and so calls
\* itself at most once, and adds at most two nodes and frees none; when
\* radixTreeFind leaves a label in the middle and the split of that node
\* succeeds, radixTreeFind of K in the tree after the split does not leave
\* a label in the middle: it stops at the empty slot of K's next
\* character under the node the split has made.
C17_OneSplitOneRetry ==
    tree # NULL =>
    \A K \in keys, fs \in InsertFails :
        LET r == radixTreeInsert(Heap(fs), tree, K)
            f == radixTreeFind(Now, tree, K)
        IN /\ r.splits <= 1
           /\ alloc \subseteq r.h.alloc
           /\ Cardinality(r.h.alloc \ alloc) <= 2
           /\ MidLabel(Now, f) =>
                LET s == radixTreeSplitNode(Heap(fs), f.ptr, f.nm)
                    f2 == radixTreeFind(s.h, tree, K)
                IN s.res = RADIX_TREE_OPERATION_SUCCESS =>
                    /\ ~MidLabel(s.h, f2)
                    /\ f2.res = RADIX_TREE_NOT_FOUND
                    /\ f2.ptr = s.h.father[f.ptr]
                    /\ f2.ptr \notin alloc
                    /\ ~radixTreeHasSon(s.h, f2.ptr, K[f2.t + 1])

\* A key that leaves a label of three characters after the first, with
\* room for two more nodes: the insert splits, tries again and adds a
\* leaf.
C17_Witness ==
    /\ tree # NULL
    /\ \E K \in keys :
        LET f == radixTreeFind(Now, tree, K)
            r == radixTreeInsert(Now, tree, K)
        IN /\ MidLabel(Now, f)
           /\ Len(txt[f.ptr]) = 3 /\ f.nm = 1
           /\ r.node # NULL /\ r.splits = 1
           /\ Cardinality(r.h.alloc \ alloc) = 2

\* C18: radixTreeInsert(tree, K), whether it returns a node or NULL,
\* leaves every node that holds a payload allocated, with the same payload
\* and the same full text, and every node it has made holds no payload.
C18_InsertKeepsPayloads ==
    tree # NULL =>
    \A K \in keys, fs \in InsertFails :
        LET r == radixTreeInsert(Heap(fs), tree, K)
        IN /\ \A n \in alloc :
                data[n] # NULL =>
                    /\ n \in r.h.alloc
                    /\ r.h.data[n] = data[n]
                    /\ radixGetFullText(r.h, n) = radixGetFullText(Now, n)
           /\ \A n \in r.h.alloc \ alloc : r.h.data[n] = NULL

\* The node of a key with a payload is split by an insert that adds a
\* prefix node and a leaf, and by one that fails after the split.
C18_Witness ==
    /\ tree # NULL
    /\ \E K \in keys :
        LET f == radixTreeFind(Now, tree, K)
            r == radixTreeInsert(Now, tree, K)
            x == radixTreeInsert(Heap(FailAt(4)), tree, K)
        IN /\ MidLabel(Now, f) /\ data[f.ptr] # NULL
           /\ r.node # NULL /\ Cardinality(r.h.alloc \ alloc) = 2
           /\ r.h.txt[f.ptr] # txt[f.ptr]
           /\ x.node = NULL /\ Cardinality(x.h.alloc \ alloc) = 1

\* C19: whatever calls of radixTreeInsert, radixTreeSetData,
\* radixTreeBalance and radixTreeDeleteSubTree were made and whichever
\* mallocs failed, assert(node->data == NULL) in radixTreeFreeNode has
\* not failed and does not fail in the next call: radixTreeBalance frees
\* only nodes that held no payload when it was called,
\* radixTreeDeleteSubTree frees a node with a payload only after f was
\* called for it, and the node a failed split frees is a new one.
C19_NoPayloadFreed ==
    /\ ~err
    /\ \A node \in alloc, mo \in BalanceInputs :
        LET r == radixTreeBalance(Heap(FailsOf(mo)), node, GarbageOf(mo))
        IN /\ ~r.h.err
           /\ \A n \in alloc \ r.h.alloc : n # tree /\ data[n] = NULL
    /\ \A node \in alloc :
        LET r == radixTreeDeleteSubTree(Now, node)
        IN /\ ~r.h.err
           /\ \A n \in Desc(Now, node) :
                data[n] # NULL =>
                    \A j \in EventsAt(r.log, "free", n) :
                        \E k \in EventsAt(r.log, "fin", n) : k < j
    /\ tree # NULL =>
        \A K \in keys, fs \in InsertFails :
            LET r == radixTreeInsert(Heap(fs), tree, K)
            IN ~r.h.err /\ alloc \subseteq r.h.alloc

\* A node below the root holds a payload and has nodes below it, a
\* balance frees a node, and a split fails after its node was made.
C19_Witness ==
    /\ tree # NULL
    /\ \E n \in alloc \ {tree} : data[n] # NULL /\ radixTreeHasSons(Now, n)
    /\ \E node \in alloc :
        radixTreeBalance(Now, node, <<>>).h.alloc # alloc
    /\ \E K \in keys :
        /\ MidLabel(Now, radixTreeFind(Now, tree, K))
        /\ Cardinality(alloc) < cap
        /\ radixTreeInsert(Heap(FailAt(2)), tree, K).h.nfail > 0

\* A caller that adds and removes keys and whose mallocs never fail.
\* r, the result of a radixTreeInsert: a node was returned and no malloc
\* failed on the way.
NoMallocFailed(r) == r.node # NULL /\ r.h.nfail = 0
\* radixTreeSetData(node, ptr) on the node that radixTreeInsert returned.
WithData(r, ptr) == radixTreeSetData(r.h, r.node, ptr)

\* Adding a key: radixTreeInsert(tree, key), then radixTreeSetData of a
\* payload on the node returned.
AddKey(key, ptr) ==
    /\ tree # NULL
    /\ NoMallocFailed(radixTreeInsert(Heap(<<>>), tree, key))
    /\ Store(WithData(radixTreeInsert(Heap(<<>>), tree, key), ptr))
    /\ ins' = ins \cup {key}
    /\ hist' = <<>>
    /\ UNCHANGED <<tree, cap, keys>>

\* Removing a key: radixTreeSetData(node, NULL) on the node of the key,
\* then radixTreeBalance(node); gv is what the merges happen to return.
RemoveKey(node, gv) ==
    /\ node \in alloc /\ data[node] # NULL
    /\ LET r == radixTreeBalance(radixTreeSetData(Now, node, NULL), node, gv)
       IN /\ Store(r.h)
          /\ hist' = IF \E k \in 1..Len(r.seen) : r.seen[k].did = "merge"
                     THEN <<FullText(Now, node)>> ELSE <<>>
    /\ ins' = ins \ {FullText(Now, node)}
    /\ UNCHANGED <<tree, cap, keys>>

InitKeys == Created(MaxNodes + 2, Keys)
NextKeys ==
    \/ \E key \in keys, ptr \in Payloads : AddKey(key, ptr)
    \/ \E node \in alloc, mo \in NoFailInputs : RemoveKey(node, GarbageOf(mo))
SpecKeys == InitKeys /\ [][NextKeys]_vars

\* C20: when no malloc fails and keys are only added (radixTreeInsert,
\* then radixTreeSetData of a payload) and removed (radixTreeSetData of
\* NULL, then radixTreeBalance), every node but the root that holds no
\* payload has two sons or more; and the nodes that hold a payload are
\* those of the keys added and not removed.
C20_FullyCompressed ==
    /\ \A n \in alloc \ {tree} :
        data[n] = NULL => radixTreeHowManySons(Now, n) >= 2
    /\ ins = {FullText(Now, n) : n \in {x \in alloc : data[x] # NULL}}

\* A key has just been removed and its removal merged a node, in a tree
\* that still has a node without a payload, with two sons.
C20_Witness ==
    /\ hist # <<>>
    /\ \E n \in alloc \ {tree} : data[n] = NULL

====
